---------------------------- MODULE Spec2Model ----------------------------
(***************************************************************************)
(* A model of readme-generator-for-helm (src/main.go).                     *)
(*                                                                         *)
(* Strings the program takes apart (dot-paths) are sequences of one-       *)
(* character strings, so that prefix tests, the search for "[" and the     *)
(* byte order of sort.Slice are computed as the code computes them.        *)
(* Pointers to Parameter objects are indices into the sequence heap.       *)
(***************************************************************************)
EXTENDS Integers, Sequences, FiniteSets, TLC

VARIABLES
    pc,         \* position of the run inside runReadmeGenerator / getParsedMetadata
    opts,       \* options: which outputs were requested
    tree,       \* the parsed YAML document of values.yaml
    lines,      \* the lines of values.yaml, as seen by the directive regexps
    readme0,    \* the lines of the README file when the run starts
    readme,     \* the lines of the README file on disk
    schemaFile, \* the schema file on disk
    valuesObj,  \* createValuesObject's result: the real parameters
    heap,       \* the Parameter objects the metadata points to
    meta,       \* the Metadata: Sections and Parameters (pointers into heap)
    chk,        \* what checkKeys computed
    stdout,     \* the lines printed so far
    writes,     \* the files written so far (ioutil.WriteFile calls), in order
    err         \* the error runReadmeGenerator returns

vars == <<pc, opts, tree, lines, readme0, readme, schemaFile, valuesObj, heap, meta, chk, stdout,
          writes, err>>

-----------------------------------------------------------------------------
(* Bounds of the model *)

\* number of declarations in values.yaml when the Reconciler's inputs are drawn
MaxDecls == 2

\* number of declarations in values.yaml when whole runs are drawn
MaxRunDecls == 2

\* number of modifiers of a declaration when modifier lists are drawn
MaxMods == 2

\* number of lines of the README when documents are drawn
MaxDocLines == 4

-----------------------------------------------------------------------------
(* Strings as character sequences *)

\* byte values of the characters path strings are made of (sort.Slice compares bytes)
Ord(c) ==
    CASE c = "." -> 46
      [] c = "0" -> 48
      [] c = "1" -> 49
      [] c = "2" -> 50
      [] c = "[" -> 91
      [] c = "]" -> 93
      [] c = "a" -> 97
      [] c = "b" -> 98
      [] c = "x" -> 120

\* strings.HasPrefix(s, pre)
HasPrefix(s, pre) ==
    /\ Len(pre) <= Len(s)
    /\ \A i \in 1..Len(pre) : s[i] = pre[i]

\* Go's s < t on strings: bytewise lexicographic
StrLess(s, t) ==
    \E i \in 1..(Len(t)) :
        /\ \A j \in 1..(i-1) : j <= Len(s) /\ s[j] = t[j]
        /\ \/ i = Len(s) + 1
           \/ i <= Len(s) /\ Ord(s[i]) < Ord(t[i])

\* strings.Index(path, "["), 1-based; 0 when there is none
IndexBracket(path) ==
    IF \E i \in 1..Len(path) : path[i] = "["
    THEN CHOOSE i \in 1..Len(path) :
            path[i] = "[" /\ \A j \in 1..(i-1) : path[j] # "["
    ELSE 0

getArrayPrefix(path) ==
    IF IndexBracket(path) = 0 THEN path
    ELSE SubSeq(path, 1, IndexBracket(path) - 1)

sanitizePropertyNoCut(path) == path

sanitizeProperty(path) ==
    IF \E i \in 1..Len(path) : path[i] = "[" THEN getArrayPrefix(path) ELSE path

\* the decimal digits of fmt.Sprintf("%d", i), i >= 0
RECURSIVE Itoa(_)
Itoa(i) ==
    LET d == <<"0", "1", "2", "3", "4", "5", "6", "7", "8", "9">>
    IN  IF i < 10 THEN <<d[i + 1]>> ELSE Itoa(i \div 10) \o <<d[(i % 10) + 1]>>

-----------------------------------------------------------------------------
(* Dynamically typed values (interface{}) *)

\* t is the Go dynamic type; s the scalar's text
NilV == [t |-> "nil", s |-> ""]
StrV(x) == [t |-> "string", s |-> x]
NumV(x) == [t |-> "int", s |-> x]
BoolV(x) == [t |-> "bool", s |-> x]
EmptyArr == [t |-> "slice", s |-> ""]
EmptyObj == [t |-> "map", s |-> ""]
TimeV(x) == [t |-> "time", s |-> x]

inferType(v) ==
    CASE v.t = "nil" -> "nil"
      [] v.t = "string" -> "string"
      [] v.t = "bool" -> "boolean"
      [] v.t \in {"int", "int64", "float64"} -> "number"
      [] v.t = "slice" -> "array"
      [] v.t = "map" -> "object"
      [] OTHER -> "unknown"

-----------------------------------------------------------------------------
(* Parameter *)

NewParameter(name) ==
    [Name |-> name, Description |-> "", Value |-> NilV, Type |-> "",
     Modifiers |-> <<>>, Section |-> "",
     Validate |-> TRUE, Readme |-> TRUE, Schema |-> TRUE]

HasModifier(p, m) == \E i \in 1..Len(p.Modifiers) : p.Modifiers[i].kind = m

SetExtra(p, b) ==
    IF b THEN [p EXCEPT !.Validate = FALSE, !.Readme = TRUE] ELSE p

Extra(p) == ~p.Validate /\ p.Readme

SetSkipReadmeOnly(p, b) ==
    IF b THEN [p EXCEPT !.Readme = FALSE]
    ELSE [p EXCEPT !.Validate = TRUE, !.Readme = TRUE]

SetSkip(p, b) ==
    IF b THEN [p EXCEPT !.Validate = FALSE, !.Readme = FALSE]
    ELSE [p EXCEPT !.Validate = TRUE, !.Readme = TRUE]

Skip(p) == ~p.Validate /\ ~p.Readme

-----------------------------------------------------------------------------
(* YAML trees: k is "map", "seq" or "scalar"; a map's children carry keys,  *)
(* a sequence's children are in index order                                 *)

YScalar(v) == [k |-> "scalar", v |-> v, c |-> <<>>]
YMap(children) == [k |-> "map", v |-> NilV, c |-> children]
YSeq(children) == [k |-> "seq", v |-> NilV, c |-> children]
KV(key, t) == [key |-> key, t |-> t]
Elem(t) == [key |-> <<>>, t |-> t]

\* out[key] = v on a Go map
MapPut(out, key, v) ==
    [x \in (DOMAIN out) \cup {key} |-> IF x = key THEN v ELSE out[x]]

childKeyFromOne(prefix, in, i) ==
    IF in.k = "map"
    THEN (IF prefix # <<>> THEN prefix \o <<".">> \o in.c[i].key ELSE in.c[i].key)
    ELSE prefix \o <<"[">> \o Itoa(i) \o <<"]">>

\* the key of the i-th child (i from 1) of the map or sequence in
childKey(prefix, in, i) ==
    IF in.k = "map"
    THEN (IF prefix # <<>> THEN prefix \o <<".">> \o in.c[i].key ELSE in.c[i].key)
    ELSE prefix \o <<"[">> \o Itoa(i - 1) \o <<"]">>

RECURSIVE flattenYAML(_, _, _)
flattenYAML(prefix, in, out) ==
    LET RECURSIVE children(_, _)
        children(i, acc) ==
            IF i > Len(in.c) THEN acc
            ELSE children(i + 1, flattenYAML(childKey(prefix, in, i), in.c[i].t, acc))
    IN  CASE in.k \in {"map", "seq"} ->
                IF Len(in.c) = 0
                THEN (IF prefix # <<>>
                      THEN MapPut(out, prefix, IF in.k = "map" THEN EmptyObj ELSE EmptyArr)
                      ELSE out)
                ELSE children(1, out)
          [] OTHER -> MapPut(out, prefix, in.v)

\* sort.Slice(params, Name <): the names of a map are distinct
RECURSIVE SortByName(_)
SortByName(ps) ==
    IF ps = {} THEN <<>>
    ELSE LET least == CHOOSE p \in ps : \A q \in ps \ {p} : StrLess(p.Name, q.Name)
         IN  <<least>> \o SortByName(ps \ {least})

createValuesObject(node) ==
    LET m == flattenYAML(<<>>, node, <<>>)
        params == { [NewParameter(path) EXCEPT !.Value = m[path],
                                               !.Type = inferType(m[path])]
                    : path \in DOMAIN m }
    IN  SortByName(params)

-----------------------------------------------------------------------------
(* parseMetadataComments.  A line of values.yaml is what the regexps see of  *)
(* it: tag is the tag the line carries after the comment prefix ("comment"   *)
(* for a comment-prefixed line with no tag, "other" for any other line),     *)
(* name and mods are the captures of regParam / regSkip / regExtra, text the *)
(* rest of the line.  A modifier token is [kind, arg]: kind "default" is a   *)
(* token "default:<arg>", kind "other" an unknown token.                     *)

Line(tag, name, mods, text) == [tag |-> tag, name |-> name, mods |-> mods, text |-> text]

Mod(kind) == [kind |-> kind, arg |-> ""]
DefaultMod(arg) == [kind |-> "default", arg |-> arg]

regSection(l) == l.tag = "section"
regDescStart(l) == l.tag = "descStart"
regDescEnd(l) == l.tag = "descEnd"
regDescContentUntagged(l) == l.tag = "comment"

\* every comment-prefixed line matches regDescContent, tagged or not
regDescContent(l) == l.tag # "other"
regParam(l) == l.tag = "param"
regSkip(l) == l.tag = "skip"
regExtra(l) == l.tag = "extra"

\* FindStringSubmatch(trimmed)[1] of regDescContent: the line after the prefix
\* and one space.  For a tagged line that is the tag and what follows it, of
\* which the model keeps the tag; for a bare comment it is its text.
Content(l) ==
    CASE l.tag = "comment" -> l.text
      [] l.tag = "param" -> "@param ..."
      [] l.tag = "skip" -> "@skip ..."
      [] l.tag = "extra" -> "@extra ..."
      [] OTHER -> l.tag

NewSection(name) == [Name |-> name, DescriptionLines |-> <<>>, Parameters |-> <<>>]

\* the parser's locals: m, the objects allocated, current (0 is nil), descriptionMode
ParserInit ==
    [Sections |-> <<>>, Parameters |-> <<>>, heap |-> <<>>,
     current |-> 0, descriptionMode |-> FALSE]

DeclareInFirstSection(st, p) ==
    LET ptr == Len(st.heap) + 1
    IN  [st EXCEPT
            !.heap = Append(@, IF st.current # 0
                               THEN [p EXCEPT !.Section = st.Sections[1].Name] ELSE p),
            !.Sections = IF st.current # 0
                         THEN [@ EXCEPT ![1].Parameters = Append(@, ptr)]
                         ELSE @,
            !.Parameters = Append(@, ptr)]

\* a declared parameter p: current.Parameters and m.AddParameter
Declare(st, p) ==
    LET q == IF st.current # 0
             THEN [p EXCEPT !.Section = st.Sections[st.current].Name] ELSE p
        ptr == Len(st.heap) + 1
    IN  [st EXCEPT
            !.heap = Append(@, q),
            !.Sections = IF st.current # 0
                         THEN [@ EXCEPT ![st.current].Parameters = Append(@, ptr)]
                         ELSE @,
            !.Parameters = Append(@, ptr)]

\* the body of the loop: the switch on one line
ParseLine(st, l) ==
    CASE regSection(l) ->
            [st EXCEPT !.Sections = Append(@, NewSection(l.text)),
                       !.current = Len(st.Sections) + 1,
                       !.descriptionMode = FALSE]
      [] ~regSection(l) /\ regDescStart(l) ->
            [st EXCEPT !.descriptionMode = TRUE,
                       !.Sections = IF st.current # 0 /\ l.text # ""
                                    THEN [@ EXCEPT ![st.current].DescriptionLines = Append(@, l.text)]
                                    ELSE @]
      [] ~regSection(l) /\ ~regDescStart(l) /\ st.descriptionMode /\ regDescEnd(l) ->
            [st EXCEPT !.descriptionMode = FALSE]
      [] ~regSection(l) /\ ~regDescStart(l) /\ st.descriptionMode /\ ~regDescEnd(l)
            /\ regDescContent(l) ->
            [st EXCEPT !.Sections = IF st.current # 0
                                    THEN [@ EXCEPT ![st.current].DescriptionLines = Append(@, Content(l))]
                                    ELSE @]
      [] ~regSection(l) /\ ~regDescStart(l) /\ ~(st.descriptionMode /\ regDescEnd(l))
            /\ ~(st.descriptionMode /\ regDescContent(l)) /\ regParam(l) ->
            Declare(st, [NewParameter(l.name) EXCEPT !.Modifiers = l.mods,
                                                     !.Description = l.text])
      [] ~regSection(l) /\ ~regDescStart(l) /\ ~(st.descriptionMode /\ regDescEnd(l))
            /\ ~(st.descriptionMode /\ regDescContent(l)) /\ ~regParam(l) /\ regSkip(l) ->
            Declare(st, SetSkip(NewParameter(l.name), TRUE))
      [] ~regSection(l) /\ ~regDescStart(l) /\ ~(st.descriptionMode /\ regDescEnd(l))
            /\ ~(st.descriptionMode /\ regDescContent(l)) /\ ~regParam(l) /\ ~regSkip(l)
            /\ regExtra(l) ->
            Declare(st, SetExtra([NewParameter(l.name) EXCEPT !.Description = l.text,
                                                              !.Value = StrV("")], TRUE))
      [] OTHER -> st

RECURSIVE parseLines(_, _, _)
parseLines(st, ls, i) ==
    IF i > Len(ls) THEN st ELSE parseLines(ParseLine(st, ls[i]), ls, i + 1)

parseMetadataComments(ls) == parseLines(ParserInit, ls, 1)

-----------------------------------------------------------------------------
(* checkKeys *)

Names(ps) == [i \in 1..Len(ps) |-> ps[i].Name]

differenceSwapped(a, b) == SelectSeq(b, LAMBDA x : ~\E j \in 1..Len(a) : a[j] = x)

difference(a, b) == SelectSeq(a, LAMBDA x : ~\E j \in 1..Len(b) : b[j] = x)

skipNamesOnlySkip(metaPs) ==
    { sanitizeProperty(metaPs[i].Name) : i \in { j \in 1..Len(metaPs) : Skip(metaPs[j]) } }

\* the set skipNames: names that cancel validation for themselves and their children
skipNames(metaPs) ==
    { sanitizeProperty(metaPs[i].Name) :
        i \in { j \in 1..Len(metaPs) : Skip(metaPs[j]) \/ Len(metaPs[j].Modifiers) > 0 } }

isSkippedNoSeparator(sk, name) ==
    \E s \in sk : HasPrefix(name, s)

isSkipped(sk, name) ==
    \E s \in sk :
        \/ name = s
        \/ HasPrefix(name, s \o <<".">>)
        \/ HasPrefix(name, s \o <<"[">>)

Msg(k, key) == [k |-> k, key |-> key]
InfoCorrect == Msg("INFO: Metadata is correct!", <<>>)
MissingMsg(key) == Msg("ERROR: Missing metadata for key", key)
OrphanMsg(key) == Msg("ERROR: Metadata provided for non existing key", key)

\* real and metaPs are the Parameter objects of the two lists, in list order
checkKeys(real, metaPs) ==
    LET sk == skipNames(metaPs)
        realKeys == Names(SelectSeq(real, LAMBDA p : ~isSkipped(sk, p.Name) /\ ~Extra(p)))
        metaKeys == Names(SelectSeq(metaPs, LAMBDA p : ~Extra(p) /\ ~isSkipped(sk, p.Name)))
        missing == difference(realKeys, metaKeys)
        orphan == difference(metaKeys, realKeys)
        ok == Len(missing) = 0 /\ Len(orphan) = 0
    IN  [ran |-> TRUE, realKeys |-> realKeys, metaKeys |-> metaKeys,
         missing |-> missing, orphan |-> orphan,
         out |-> IF ok THEN <<InfoCorrect>>
                 ELSE [i \in 1..Len(missing) |-> MissingMsg(missing[i])]
                      \o [i \in 1..Len(orphan) |-> OrphanMsg(orphan[i])],
         err |-> IF ok THEN "" ELSE "metadata errors found"]

NotChecked ==
    [ran |-> FALSE, realKeys |-> <<>>, metaKeys |-> <<>>, missing |-> <<>>,
     orphan |-> <<>>, out |-> <<>>, err |-> ""]

\* the Parameter objects a list of pointers names
Deref(h, ptrs) == [i \in 1..Len(ptrs) |-> h[ptrs[i]]]

-----------------------------------------------------------------------------
(* combineMetadataAndValues(values, meta): meta is the caller's slice of     *)
(* pointers, passed by value.  The result is the heap after the call and the *)
(* callee's local slice; the caller's slice header is not changed by append. *)

\* index of the first value named name, 0 if none (the inner loop with break)
FirstNamed(values, name) ==
    IF \E i \in 1..Len(values) : values[i].Name = name
    THEN CHOOSE i \in 1..Len(values) :
            values[i].Name = name /\ \A j \in 1..(i-1) : values[j].Name # name
    ELSE 0

MergeOne(values, p) ==
    IF Extra(p) \/ FirstNamed(values, p.Name) = 0 THEN p
    ELSE LET src == values[FirstNamed(values, p.Name)]
         IN  [p EXCEPT !.Value = IF p.Value = NilV THEN src.Value ELSE @,
                       !.Type = src.Type,
                       !.Schema = src.Schema]

RECURSIVE addSkipParameters(_, _, _, _)
addSkipParameters(values, h, local, i) ==
    IF i > Len(values) THEN [heap |-> h, meta |-> local]
    ELSE IF \E j \in 1..Len(local) : h[local[j]].Name = values[i].Name
         THEN addSkipParameters(values, h, local, i + 1)
         ELSE addSkipParameters(values, Append(h, SetSkip(values[i], TRUE)),
                                Append(local, Len(h) + 1), i + 1)

combineMetadataAndValues(values, h, ptrs) ==
    LET merged == [i \in 1..Len(h) |->
                      IF \E j \in 1..Len(ptrs) : ptrs[j] = i
                      THEN MergeOne(values, h[i]) ELSE h[i]]
    IN  addSkipParameters(values, merged, ptrs, 1)

-----------------------------------------------------------------------------
(* applyModifiers, buildParamsToRender *)

applyOneNilToggle(p, m, nullableLast) ==
    CASE m.kind = "array" ->
            [p EXCEPT !.Type = "array", !.Value = IF ~nullableLast THEN EmptyArr ELSE @]
      [] m.kind = "object" ->
            [p EXCEPT !.Type = "object", !.Value = IF ~nullableLast THEN EmptyObj ELSE @]
      [] m.kind = "string" ->
            [p EXCEPT !.Type = "string", !.Value = IF ~nullableLast THEN StrV("") ELSE @]
      [] m.kind = "nullable" ->
            [p EXCEPT !.Value = IF @ = NilV THEN StrV("nil")
                                ELSE IF @ = StrV("nil") THEN NilV ELSE @]
      [] m.kind = "default" ->
            [p EXCEPT !.Value = StrV(m.arg)]
      [] OTHER -> p

applyOne(p, m, nullableLast) ==
    CASE m.kind = "array" ->
            [p EXCEPT !.Type = "array", !.Value = IF ~nullableLast THEN EmptyArr ELSE @]
      [] m.kind = "object" ->
            [p EXCEPT !.Type = "object", !.Value = IF ~nullableLast THEN EmptyObj ELSE @]
      [] m.kind = "string" ->
            [p EXCEPT !.Type = "string", !.Value = IF ~nullableLast THEN StrV("") ELSE @]
      [] m.kind = "nullable" ->
            [p EXCEPT !.Value = IF @ = NilV THEN StrV("nil") ELSE @]
      [] m.kind = "default" ->
            [p EXCEPT !.Value = StrV(m.arg)]
      [] OTHER -> p

RECURSIVE applyFrom(_, _, _)
applyFrom(p, i, nullableLast) ==
    IF i > Len(p.Modifiers) THEN p
    ELSE applyFrom(applyOne(p, p.Modifiers[i], nullableLast), i + 1, nullableLast)

applyModifiersIgnoringOrder(p) ==
    IF Len(p.Modifiers) = 0 THEN p
    ELSE applyFrom(p, 1, HasModifier(p, "nullable"))

applyModifiers(p) ==
    IF Len(p.Modifiers) = 0 THEN p
    ELSE LET nullableLast == /\ HasModifier(p, "nullable")
                             /\ p.Modifiers[Len(p.Modifiers)].kind = "nullable"
         IN  applyFrom(p, 1, nullableLast)

\* the heap after the call and the list returned
RECURSIVE buildFrom(_, _, _, _)
buildFrom(h, list, i, out) ==
    IF i > Len(list) THEN [heap |-> h, out |-> out]
    ELSE IF Skip(h[list[i]]) THEN buildFrom(h, list, i + 1, out)
         ELSE buildFrom([h EXCEPT ![list[i]] = applyModifiers(@)], list, i + 1,
                        Append(out, list[i]))

buildParamsToRender(h, list) == buildFrom(h, list, 1, <<>>)

-----------------------------------------------------------------------------
(* Rendering.  A text is a sequence of chunks, in the order strings.Builder  *)
(* receives them; the chunk NL is "\n".  A line is the chunks between two    *)
(* NL.  A table cell is the sequence of the strings it concatenates; the     *)
(* padding of the cells to the column width is not modelled.                 *)

Chunk(k, d, t, cells) == [k |-> k, d |-> d, t |-> t, cells |-> cells]
NL == Chunk("nl", 0, "", <<>>)
CR == Chunk("cr", 0, "", <<>>)
Text(t) == Chunk("text", 0, t, <<>>)
Heading(d, t) == Chunk("heading", d, t, <<>>)
Row(cells) == Chunk("row", 0, "", cells)
SepRow == Chunk("sep", 0, "", <<>>)

\* the backtick and the double-quote characters
BT == "backtick"
DQ == "dquote"

\* json.Marshal of a value that is not a string
JsonMarshal(v) ==
    CASE v.t = "nil" -> "null"
      [] v.t = "slice" -> "[]"
      [] v.t = "map" -> "{}"
      [] OTHER -> v.s

\* the cell val of markdownTable
ValueCell(p) ==
    IF Extra(p) THEN <<>>
    ELSE IF p.Value.t = "string"
         THEN (IF p.Value.s = "" THEN <<BT, DQ, DQ, BT>> ELSE <<BT, p.Value.s, BT>>)
         ELSE <<BT, JsonMarshal(p.Value), BT>>

TableRow(p) == Row(<< <<BT>> \o p.Name \o <<BT>>, <<p.Description>>, ValueCell(p) >>)

RECURSIVE TableRows(_, _)
TableRows(ps, i) ==
    IF i > Len(ps) THEN <<>> ELSE <<TableRow(ps[i]), NL>> \o TableRows(ps, i + 1)

\* params are the Parameter objects of the section
markdownTable(params) ==
    <<Row(<< <<"Name">>, <<"Description">>, <<"Value">> >>), NL, SepRow, NL>>
    \o TableRows(params, 1)

\* strings.Join(s.DescriptionLines, "\r\n"); an empty string writes no chunk
RECURSIVE Description(_, _)
Description(ls, i) ==
    IF i > Len(ls) THEN <<>>
    ELSE (IF ls[i] = "" THEN <<>> ELSE <<Text(ls[i])>>)
         \o (IF i < Len(ls) THEN <<CR, NL>> ELSE <<>>)
         \o Description(ls, i + 1)

renderSection(h, sec, d) ==
    <<Heading(d, sec.Name), NL, NL>>
    \o Description(sec.DescriptionLines, 1)
    \o (IF Len(sec.Parameters) > 0 THEN markdownTable(Deref(h, sec.Parameters)) ELSE <<>>)

RECURSIVE renderReadmeTable(_, _, _, _)
renderReadmeTable(h, secs, d, i) ==
    IF i > Len(secs) THEN <<>>
    ELSE <<NL>> \o renderSection(h, secs[i], d) \o renderReadmeTable(h, secs, d, i + 1)

\* strings.Split(text, "\n")
RECURSIVE SplitNL(_, _, _)
SplitNL(text, i, cur) ==
    IF i > Len(text) THEN <<cur>>
    ELSE IF text[i] = NL THEN <<cur>> \o SplitNL(text, i + 1, <<>>)
         ELSE SplitNL(text, i + 1, Append(cur, text[i]))

-----------------------------------------------------------------------------
(* insertReadmeTable.  doc is strings.Split(raw, "\n"): the README's lines.  *)

\* the title the pattern cfg.Regexp.ParamsSectionTitle matches
ParamsSectionTitle == "Parameters"

\* reStart = ^(##+) <title>: the number of hashes it captures, 0 if no match
reStart(l) ==
    IF Len(l) > 0 /\ l[1].k = "heading" /\ l[1].d >= 2 /\ l[1].t = ParamsSectionTitle
    THEN l[1].d ELSE 0

\* sameLevel = ^#{n}\s
sameLevelAnyDeeper(l, n) == Len(l) > 0 /\ l[1].k = "heading" /\ l[1].d >= n

sameLevel(l, n) == Len(l) > 0 /\ l[1].k = "heading" /\ l[1].d = n

\* start, 1-based: the number of lines kept before the table; 0 stands for -1
FindStart(doc) ==
    IF \E i \in 1..Len(doc) : reStart(doc[i]) > 0
    THEN CHOOSE i \in 1..Len(doc) :
            reStart(doc[i]) > 0 /\ \A j \in 1..(i-1) : reStart(doc[j]) = 0
    ELSE 0

\* end: the number of lines before the first line kept after the table
FindEnd(doc, start, n) ==
    IF \E i \in (start+1)..Len(doc) : sameLevel(doc[i], n)
    THEN (CHOOSE i \in (start+1)..Len(doc) :
            sameLevel(doc[i], n) /\ \A j \in (start+1)..(i-1) : ~sameLevel(doc[j], n)) - 1
    ELSE Len(doc)

insertReadmeTable(doc, h, sections) ==
    LET start == FindStart(doc)
    IN  IF start = 0
        THEN [err |-> "could not find Parameters section in README",
              written |-> FALSE, doc |-> doc]
        ELSE LET n == reStart(doc[start])
                 end == FindEnd(doc, start, n)
                 newTable == renderReadmeTable(h, sections, n + 1, 1)
             IN  [err |-> "", written |-> TRUE,
                  doc |-> SubSeq(doc, 1, start) \o SplitNL(newTable, 1, <<>>)
                          \o SubSeq(doc, end + 1, Len(doc))]

-----------------------------------------------------------------------------
(* OpenAPI schema.  A schemaObject is a node: keys is the set of keys the Go *)
(* map holds, the other fields their values (props is "properties", a map    *)
(* from a path segment to a node).                                           *)

ObjectNode ==
    [keys |-> {"type", "properties"}, type |-> "object", description |-> "",
     default |-> NilV, items |-> "", props |-> <<>>]

\* the item type inferred from the first element of a default; the Flattener
\* stores only empty sequences and the modifiers set only empty ones
ElemType(v) == ""

LeafNode(param) ==
    [keys |-> {"type", "description", "default"}
              \cup (IF HasModifier(param, "nullable") THEN {"nullable"} ELSE {})
              \cup (IF param.Type = "array" THEN {"items"} ELSE {}),
     type |-> param.Type, description |-> param.Description,
     default |-> param.Value,
     items |-> IF param.Type = "array" THEN ElemType(param.Value) ELSE "",
     props |-> <<>>]

\* strings.Split(name, ".")
RECURSIVE SplitDot(_, _, _)
SplitDot(name, i, cur) ==
    IF i > Len(name) THEN <<cur>>
    ELSE IF name[i] = "." THEN <<cur>> \o SplitDot(name, i + 1, <<>>)
         ELSE SplitDot(name, i + 1, Append(cur, name[i]))

\* the loop of add from segment i on, in the map cur; panic is the failed type
\* assertion cur[part]["properties"].(schemaObject) on a node without properties
RECURSIVE addFrom(_, _, _, _)
addFrom(cur, parts, i, param) ==
    IF i = Len(parts)
    THEN [panic |-> FALSE, props |-> MapPut(cur, parts[i], LeafNode(param))]
    ELSE LET node == IF parts[i] \in DOMAIN cur THEN cur[parts[i]] ELSE ObjectNode
         IN  IF "properties" \notin node.keys
             THEN [panic |-> TRUE, props |-> cur]
             ELSE LET sub == addFrom(node.props, parts, i + 1, param)
                  IN  [panic |-> sub.panic,
                       props |-> MapPut(cur, parts[i], [node EXCEPT !.props = sub.props])]

\* schemaGenerator.add on the root's properties
add(props, param) ==
    IF Extra(param) \/ ~param.Schema \/ HasModifier(param, "object")
    THEN [panic |-> FALSE, props |-> props]
    ELSE addFrom(props, SplitDot(param.Name, 1, <<>>), 1, param)

RECURSIVE addAll(_, _, _)
addAll(props, params, i) ==
    IF i > Len(params) THEN [panic |-> FALSE, props |-> props]
    ELSE LET r == add(props, params[i])
         IN  IF r.panic THEN r ELSE addAll(r.props, params, i + 1)

\* the root written by renderOpenAPISchema: title "Chart Values", type object
renderOpenAPISchema(params) == addAll(<<>>, params, 1)

NoFile == [written |-> FALSE, props |-> <<>>]

-----------------------------------------------------------------------------
(* The run: runReadmeGenerator and getParsedMetadata, one action per call *)

CreateValuesObject ==
    /\ pc = "start"
    /\ valuesObj' = createValuesObject(tree)
    /\ pc' = "parse"
    /\ UNCHANGED <<opts, tree, lines, readme0, readme, schemaFile, heap, meta, chk, stdout, writes, err>>

ParseMetadataComments ==
    /\ pc = "parse"
    /\ LET st == parseMetadataComments(lines)
       IN  /\ heap' = st.heap
           /\ meta' = [Sections |-> st.Sections, Parameters |-> st.Parameters]
    /\ pc' = "check"
    /\ UNCHANGED <<opts, tree, lines, readme0, readme, schemaFile, valuesObj, chk, stdout, writes, err>>

AfterCheckKeysIgnoringError(e) == "combine"

\* getParsedMetadata: if err := checkKeys(...); err != nil { return nil, err }
AfterCheckKeys(e) == IF e # "" THEN "failed" ELSE "combine"

CheckKeys ==
    /\ pc = "check"
    /\ LET r == checkKeys(valuesObj, Deref(heap, meta.Parameters))
       IN  /\ chk' = r
           /\ stdout' = stdout \o r.out
           /\ err' = r.err
           /\ pc' = AfterCheckKeys(r.err)
    /\ UNCHANGED <<opts, tree, lines, readme0, readme, schemaFile, valuesObj, heap, meta, writes>>

\* the caller's meta.Parameters keeps its length: append wrote to the callee's slice
CombineMetadataAndValues ==
    /\ pc = "combine"
    /\ heap' = combineMetadataAndValues(valuesObj, heap, meta.Parameters).heap
    /\ pc' = "readme"
    /\ UNCHANGED <<opts, tree, lines, readme0, readme, schemaFile, valuesObj, meta, chk, stdout,
                   writes, err>>

\* for _, sec := range meta.Sections { sec.Parameters = buildParamsToRender(...) }
RECURSIVE buildSections(_, _, _)
buildSections(h, secs, i) ==
    IF i > Len(secs) THEN [heap |-> h, Sections |-> secs]
    ELSE LET r == buildParamsToRender(h, secs[i].Parameters)
         IN  buildSections(r.heap, [secs EXCEPT ![i].Parameters = r.out], i + 1)

UpdateReadme ==
    /\ pc = "readme"
    /\ IF opts.readme
       THEN LET b == buildSections(heap, meta.Sections, 1)
                r == insertReadmeTable(readme, b.heap, b.Sections)
            IN  /\ heap' = b.heap
                /\ meta' = [meta EXCEPT !.Sections = b.Sections]
                /\ readme' = r.doc
                /\ writes' = IF r.written THEN Append(writes, "readme") ELSE writes
                /\ err' = r.err
                /\ stdout' = IF r.err = "" THEN Append(stdout, Msg("README updated", <<>>))
                             ELSE stdout
                /\ pc' = IF r.err = "" THEN "schema" ELSE "failed"
       ELSE /\ pc' = "schema"
            /\ UNCHANGED <<heap, meta, readme, writes, err, stdout>>
    /\ UNCHANGED <<opts, tree, lines, readme0, schemaFile, valuesObj, chk>>

GenerateSchema ==
    /\ pc = "schema"
    /\ IF opts.schema
       THEN LET b == buildParamsToRender(heap, meta.Parameters)
                r == renderOpenAPISchema(Deref(b.heap, b.out))
            IN  /\ heap' = b.heap
                /\ meta' = [meta EXCEPT !.Parameters = b.out]
                /\ schemaFile' = IF r.panic THEN schemaFile
                                 ELSE [written |-> TRUE, props |-> r.props]
                /\ writes' = IF r.panic THEN writes ELSE Append(writes, "schema")
                /\ stdout' = IF r.panic THEN stdout
                             ELSE Append(stdout, Msg("Schema generated", <<>>))
                /\ pc' = IF r.panic THEN "panic" ELSE "done"
       ELSE /\ pc' = "done"
            /\ UNCHANGED <<heap, meta, schemaFile, writes, stdout>>
    /\ UNCHANGED <<opts, tree, lines, readme0, readme, valuesObj, chk, err>>

Next ==
    \/ CreateValuesObject
    \/ ParseMetadataComments
    \/ CheckKeys
    \/ CombineMetadataAndValues
    \/ UpdateReadme
    \/ GenerateSchema

\* the state runReadmeGenerator starts in, for an input drawn from the given sets
InitOn(optSet, treeSet, lineSet, docSet) ==
    /\ pc = "start"
    /\ opts \in optSet
    /\ tree \in treeSet
    /\ lines \in lineSet
    /\ readme0 \in docSet
    /\ readme = readme0
    /\ schemaFile = NoFile
    /\ valuesObj = <<>>
    /\ heap = <<>>
    /\ meta = [Sections |-> <<>>, Parameters |-> <<>>]
    /\ chk = NotChecked
    /\ stdout = <<>>
    /\ writes = <<>>
    /\ err = ""

-----------------------------------------------------------------------------
(* Inputs *)

\* sequences over S of length at most n
RECURSIVE SeqsUpTo(_, _)
SeqsUpTo(S, n) ==
    IF n = 0 THEN {<<>>}
    ELSE LET shorter == SeqsUpTo(S, n - 1)
         IN  shorter \cup { Append(q, x) : q \in { r \in shorter : Len(r) = n - 1 }, x \in S }

nA == <<"a">>
nB == <<"b">>
nAB == <<"a", "b">>
nX == <<"x">>
nA_B == <<"a", ".", "b">>
nA0 == <<"a", "[", "0", "]">>
nA0_B == <<"a", "[", "0", "]", ".", "b">>

One == YScalar(NumV("1"))
Two == YScalar(NumV("2"))

\* {x: [1, 2]}
TreeX == YMap(<<KV(nX, YSeq(<<Elem(One), Elem(Two)>>))>>)

\* {}, {a: 1}, {a: 1, b: "h"}, {a: {b: 1}}, {a: [1, 2]}, {a: {b: 1}, ab: 2},
\* {a: [{b: 1}], b: {}}, {x: [1, 2]}
CheckTrees ==
    { YMap(<<>>),
      YMap(<<KV(nA, One)>>),
      YMap(<<KV(nA, One), KV(nB, YScalar(StrV("h")))>>),
      YMap(<<KV(nA, YMap(<<KV(nB, One)>>))>>),
      YMap(<<KV(nA, YSeq(<<Elem(One), Elem(Two)>>))>>),
      YMap(<<KV(nA, YMap(<<KV(nB, One)>>)), KV(nAB, Two)>>),
      YMap(<<KV(nA, YSeq(<<Elem(YMap(<<KV(nB, One)>>))>>)), KV(nB, YMap(<<>>))>>),
      TreeX }

ParamLine(name, mods) == Line("param", name, mods, "desc")
SkipLine(name) == Line("skip", name, <<>>, "")
ExtraLine(name) == Line("extra", name, <<>>, "desc")
SectionLine(title) == Line("section", <<>>, <<>>, title)

DeclsOf(names) ==
    { ParamLine(n, <<>>) : n \in names } \cup { ParamLine(n, <<Mod("array")>>) : n \in names }
    \cup { SkipLine(n) : n \in names } \cup { ExtraLine(n) : n \in names }

CheckNames == {nA, nB, nAB, nA_B, nA0, nA0_B}

\* a README with the Parameters heading, a generated part to replace, and a next chapter
ReadmeDoc ==
    << <<Heading(1, "Chart")>>, <<Heading(2, "Parameters")>>, <<Text("old")>>,
       <<Heading(2, "License")>> >>

SchemaOnly == [readme |-> FALSE, schema |-> TRUE]
ReadmeOnly == [readme |-> TRUE, schema |-> FALSE]
Both == [readme |-> TRUE, schema |-> TRUE]

-----------------------------------------------------------------------------
(* Specifications: the same run, over different families of inputs *)

\* the Reconciler's inputs: many trees and declarations
InitCheck ==
    InitOn({SchemaOnly}, CheckTrees, SeqsUpTo(DeclsOf(CheckNames), MaxDecls), {ReadmeDoc})

SpecCheck == InitCheck /\ [][Next]_vars

\* whole runs: both outputs, sections, READMEs with and without the heading
RunTrees ==
    { YMap(<<>>), YMap(<<KV(nA, One)>>), YMap(<<KV(nA, YMap(<<KV(nB, One)>>))>>), TreeX }

RunLines ==
    { pre \o ds : pre \in {<<>>, <<SectionLine("S")>>},
                  ds \in SeqsUpTo(DeclsOf({nA, nA_B}), MaxRunDecls) }

NoHeadingDoc == << <<Heading(1, "Chart")>>, <<Text("old")>> >>

RunDocs == {ReadmeDoc, NoHeadingDoc}

Init == InitOn({ReadmeOnly, SchemaOnly, Both}, RunTrees, RunLines, RunDocs)

Spec == Init /\ [][Next]_vars

\* the ModifierEngine's inputs: one parameter a, every modifier list, with and
\* without a real value; and one file with both orders of array and nullable
ModTokens ==
    { Mod("array"), Mod("object"), Mod("string"), Mod("nullable"), DefaultMod("v"),
      Mod("other") }

ModTrees ==
    { YMap(<<>>), YMap(<<KV(nA, One)>>), YMap(<<KV(nA, YScalar(StrV("h")))>>),
      YMap(<<KV(nA, YScalar(NilV))>>), YMap(<<KV(nA, YSeq(<<>>))>>) }

OrderPair ==
    << SectionLine("S"), ParamLine(nA, <<Mod("array"), Mod("nullable")>>),
       ParamLine(nB, <<Mod("nullable"), Mod("array")>>) >>

ModLines ==
    { pre \o <<ParamLine(nA, ms)>> : pre \in {<<>>, <<SectionLine("S")>>},
                                     ms \in SeqsUpTo(ModTokens, MaxMods) }
    \cup {OrderPair}

InitMod == InitOn({ReadmeOnly, SchemaOnly, Both}, ModTrees, ModLines, {ReadmeDoc})

SpecMod == InitMod /\ [][Next]_vars

\* the Table injector's inputs: every README of a few lines
DocLines ==
    { <<Text("t")>> }
    \cup { <<Heading(d, t)>> : d \in 1..3, t \in {ParamsSectionTitle, "Other"} }

ReadmeDocs == SeqsUpTo(DocLines, MaxDocLines) \ {<<>>}

InitReadme ==
    InitOn({ReadmeOnly}, {YMap(<<KV(nA, One)>>)},
           {<<SectionLine("S"), ParamLine(nA, <<>>)>>}, ReadmeDocs)

SpecReadme == InitReadme /\ [][Next]_vars

\* the DirectiveParser's inputs: every file of a few lines, each a section
\* line, a description tag, a declaration, a bare comment or a line of YAML
MaxParseLines == 4

DescStartLine(text) == Line("descStart", <<>>, <<>>, text)
DescEndLine == Line("descEnd", <<>>, <<>>, "")
CommentLine(text) == Line("comment", <<>>, <<>>, text)
YamlLine == Line("other", <<>>, <<>>, "")

ParseTokens ==
    { SectionLine("S"), SectionLine("T"), DescStartLine("first"), DescStartLine(""),
      DescEndLine, ParamLine(nA, <<>>), SkipLine(nA_B), ExtraLine(nB), CommentLine("c"),
      YamlLine }

InitParse ==
    InitOn({Both}, {YMap(<<KV(nA, One)>>)}, SeqsUpTo(ParseTokens, MaxParseLines), {ReadmeDoc})

SpecParse == InitParse /\ [][Next]_vars

-----------------------------------------------------------------------------
(* Notions the claims are stated in *)

ToSet(q) == { q[i] : i \in 1..Len(q) }

\* checkKeys has run and the lists it read are still as it read them
Checked == chk.ran /\ pc \in {"combine", "readme", "schema", "failed"}

RealNames == { valuesObj[i].Name : i \in 1..Len(valuesObj) }
Declared == { heap[meta.Parameters[i]] : i \in 1..Len(meta.Parameters) }
DeclaredNames == { q.Name : q \in { d \in Declared : ~Extra(d) } }

\* the paths printed as missing metadata, and as metadata for a non-existing key
MissingReported ==
    { stdout[i].key : i \in { j \in 1..Len(stdout) : stdout[j].k = "ERROR: Missing metadata for key" } }
OrphanReported ==
    { stdout[i].key :
        i \in { j \in 1..Len(stdout) : stdout[j].k = "ERROR: Metadata provided for non existing key" } }

\* p is s, or starts with s + "." or with s + "["
Under(p, s) ==
    \/ p = s
    \/ Len(p) > Len(s) /\ SubSeq(p, 1, Len(s)) = s /\ p[Len(s) + 1] \in {".", "["}

\* s up to, and without, its first "["
CutAtBracket(s) ==
    LET n == CHOOSE k \in 0..Len(s) :
                /\ \A j \in 1..k : s[j] # "["
                /\ k < Len(s) => s[k + 1] = "["
    IN  SubSeq(s, 1, n)

\* the names declared @skip or carrying a modifier
SkipDeclared == { q.Name : q \in { d \in Declared : Skip(d) \/ Len(d.Modifiers) > 0 } }

\* p lies in a skip subtree: under a skip name cut at its first "["
InSkipSubtree(p) == \E s \in SkipDeclared : Under(p, CutAtBracket(s))

\* the two sets the Reconciler compares
RealSet == { p \in RealNames : ~InSkipSubtree(p) }
DeclSet == { p \in DeclaredNames : ~InSkipSubtree(p) }

\* p was taken out of both comparisons / p was left in those it belongs to
Removed(p) == p \notin ToSet(chk.realKeys) /\ p \notin ToSet(chk.metaKeys)
Kept(p) ==
    /\ p \in RealNames => p \in ToSet(chk.realKeys)
    /\ p \in DeclaredNames => p \in ToSet(chk.metaKeys)

-----------------------------------------------------------------------------
(* C1 *)

-----------------------------------------------------------------------------
(* C2 *)

\* C2 as claimed: a real or declared path is removed from both checks exactly
\* when it is under the declared name s itself of some skip declaration.
C2_RemovedIffUnderDeclaredName ==
    Checked =>
        \A p \in RealNames \cup DeclaredNames :
            IF \E s \in SkipDeclared : Under(p, s) THEN Removed(p) ELSE Kept(p)

\* C2 amended: a real or declared path is removed from both checks exactly when it
\* is under some skip name cut before its first "[" (sanitizeProperty of the
\* declared name), at any depth; a path under no such name is left in.
C2_RemovedIffUnderCutName ==
    Checked =>
        \A p \in RealNames \cup DeclaredNames :
            IF InSkipSubtree(p) THEN Removed(p) ELSE Kept(p)

\* a skip of an array element took a sibling element out of the comparison, a deep
\* path was removed, and another path was left in
C2_Witness ==
    /\ Checked
    /\ \E s \in SkipDeclared :
          /\ CutAtBracket(s) # s
          /\ \E p \in RealNames : ~Under(p, s) /\ Under(p, CutAtBracket(s)) /\ Removed(p)
    /\ \E p \in RealNames \cup DeclaredNames : ~InSkipSubtree(p) /\ Kept(p)

-----------------------------------------------------------------------------
(* C6 *)

\* C6: for a declared parameter carrying at least one modifier, neither its own
\* path nor any path nested under it is printed as missing or as non-existing.
C6_ModifierCoversSubtree ==
    Checked =>
        \A q \in Declared :
            Len(q.Modifiers) > 0 =>
                \A p \in MissingReported \cup OrphanReported : ~Under(p, q.Name)

\* a parameter with a modifier, a real path nested under it and a declared path
\* nested under it that the real tree does not have
C6_Witness ==
    /\ Checked
    /\ \E q \in Declared :
          /\ Len(q.Modifiers) > 0
          /\ \E p \in RealNames : p # q.Name /\ Under(p, q.Name)
          /\ \E p \in DeclaredNames \ RealNames : p # q.Name /\ Under(p, q.Name)

-----------------------------------------------------------------------------
(* C7 *)

\* getParsedMetadata up to checkKeys, on a tree and the lines of its file
Reconcile(t, ls) ==
    LET st == parseMetadataComments(ls)
    IN  checkKeys(createValuesObject(t), Deref(st.heap, st.Parameters))

\* the declarations of a path the real tree does not have
AbsentDecls == { d \in DeclsOf(CheckNames) : d.name \notin RealNames }

\* C7 as claimed: after a successful reconciliation, the same input with any one
\* more declaration of a path absent from the real tree fails with exactly one
\* report, "metadata for non-existing key" of that path.
C7_AnyAddedDeclarationIsOrphan ==
    Checked /\ chk.err = "" =>
        \A d \in AbsentDecls :
            LET r == Reconcile(tree, Append(lines, d))
            IN  r.err # "" /\ r.out = <<OrphanMsg(d.name)>>

\* the added declaration is a @param without modifiers, under no skip subtree
AddedIsPlain(d) ==
    /\ d.tag = "param" /\ Len(d.mods) = 0
    /\ ~InSkipSubtree(d.name)

\* C7 amended: after a successful reconciliation, the same input with one more
\* @param declaration that carries no modifier, of a path absent from the real
\* tree and in no skip subtree, fails with exactly one report, "metadata for
\* non-existing key" of that path.
C7_AddedPlainParamIsOrphan ==
    Checked /\ chk.err = "" =>
        \A d \in AbsentDecls :
            AddedIsPlain(d) =>
                LET r == Reconcile(tree, Append(lines, d))
                IN  r.err # "" /\ r.out = <<OrphanMsg(d.name)>>

\* a successful reconciliation of a tree with real paths and declarations, one of
\* them in a skip subtree, to which a plain @param of an absent path can be added
C7_Witness ==
    /\ Checked /\ chk.err = ""
    /\ RealSet # {} /\ SkipDeclared # {}
    /\ \E d \in AbsentDecls :
          AddedIsPlain(d) /\ Reconcile(tree, Append(lines, d)).orphan = <<d.name>>

-----------------------------------------------------------------------------
(* C3 *)

\* C3: a run whose reconciliation printed a missing or an orphan key writes
\* neither the README nor the schema file, and a file is written only in a run in
\* which checkKeys has returned without error.
C3_NoOutputOnValidationFailure ==
    /\ MissingReported \cup OrphanReported # {} =>
          writes = <<>> /\ schemaFile = NoFile /\ readme = readme0
    /\ writes # <<>> \/ schemaFile # NoFile \/ readme # readme0 =>
          chk.ran /\ chk.err = ""

\* a run asked for both files, on a README that has the heading, whose
\* reconciliation printed a mismatch and failed
C3_Witness ==
    /\ pc = "failed" /\ opts = Both /\ readme = ReadmeDoc
    /\ MissingReported \cup OrphanReported # {}

-----------------------------------------------------------------------------
(* C4 *)

\* the paths values.yaml declares with @param, @skip or @extra
DeclaredInFile ==
    { lines[i].name : i \in { j \in 1..Len(lines) : lines[j].tag \in {"param", "skip", "extra"} } }

\* C4: once combineMetadataAndValues has returned, the parameter list of the
\* metadata holds, for every real entry whose path no declaration has, a Skip
\* parameter with that path and that value.
C4_SynthesizedSkipVisible ==
    pc = "readme" =>
        \A i \in 1..Len(valuesObj) :
            valuesObj[i].Name \notin DeclaredInFile =>
                \E j \in 1..Len(meta.Parameters) :
                    LET q == heap[meta.Parameters[j]]
                    IN  Skip(q) /\ q.Name = valuesObj[i].Name /\ q.Value = valuesObj[i].Value

-----------------------------------------------------------------------------
(* C8 *)

\* the table rows of the README, header rows aside
DataRows ==
    { c \in UNION { ToSet(readme[i]) : i \in 1..Len(readme) } :
        c.k = "row" /\ c.cells[1] # <<"Name">> }

\* C8: a path declared with @extra is printed neither as missing nor as
\* non-existing, whether the real tree has it or not, and the table row of an
\* Extra parameter has an empty value cell.
C8_ExtraNeverReported ==
    /\ Checked =>
          \A q \in Declared :
              Extra(q) => q.Name \notin MissingReported \cup OrphanReported
    /\ \A q \in Declared :
          Extra(q) /\ (\A d \in Declared : d.Name = q.Name => Extra(d)) =>
              \A c \in DataRows : c.cells[1] = <<BT>> \o q.Name \o <<BT>> => c.cells[3] = <<>>

-----------------------------------------------------------------------------
(* C9 *)

nX0 == <<"x", "[", "0", "]">>
nX1 == <<"x", "[", "1", "]">>

\* the run has ended
Ended == pc \in {"done", "failed", "panic"}

\* C9 as claimed: the run on {x: [1, 2]} without directives ends with no
\* validation error, an implicit Skip entry for x, no table row and no schema
\* property.
C9_NoDirectivesNoError ==
    tree = TreeX /\ lines = <<>> /\ Ended =>
        /\ chk.err = "" /\ MissingReported \cup OrphanReported = {}
        /\ \E i \in 1..Len(heap) : Skip(heap[i]) /\ heap[i].Name = nX
        /\ DataRows = {}
        /\ schemaFile.props = <<>>

\* C9 amended: the run on {x: [1, 2]} without directives prints "missing metadata"
\* for x[0] and for x[1], fails in checkKeys, makes no Skip entry, and writes no
\* table row and no schema.
C9_NoDirectivesMissingKeys ==
    tree = TreeX /\ lines = <<>> /\ pc \notin {"start", "parse", "check"} =>
        /\ pc = "failed" /\ err = "metadata errors found"
        /\ stdout = <<MissingMsg(nX0), MissingMsg(nX1)>>
        /\ heap = <<>> /\ meta.Parameters = <<>>
        /\ writes = <<>> /\ DataRows = {} /\ schemaFile = NoFile

\* the run on {x: [1, 2]} without directives has ended, both files asked for
C9_Witness ==
    tree = TreeX /\ lines = <<>> /\ Ended /\ opts = Both /\ readme = ReadmeDoc

-----------------------------------------------------------------------------
(* C5 *)

\* applyModifiers has run on the object at ptr: buildParamsToRender took it from a
\* section's list for the README, or from the metadata's list for the schema
Modified(ptr) ==
    \/ /\ opts.readme /\ chk.ran /\ chk.err = ""
       /\ pc \in {"schema", "done", "panic", "failed"}
       /\ \E i \in 1..Len(meta.Sections) : ptr \in ToSet(meta.Sections[i].Parameters)
    \/ /\ opts.schema /\ pc \in {"done", "panic"}
       /\ ptr \in ToSet(meta.Parameters)

\* the value the parameter named name has before the modifiers: the real value
PriorValue(name) ==
    IF \E i \in 1..Len(valuesObj) : valuesObj[i].Name = name
    THEN valuesObj[CHOOSE i \in 1..Len(valuesObj) : valuesObj[i].Name = name].Value
    ELSE NilV

\* C5: on a parameter with no prior value, the modifiers [array, nullable] give
\* type array and leave the value the null sentinel "nil"; the modifiers
\* [nullable, array] give type array and the empty sequence as value.
C5_ModifierOrder ==
    \A ptr \in 1..Len(heap) :
        Modified(ptr) /\ PriorValue(heap[ptr].Name) = NilV =>
            /\ heap[ptr].Modifiers = <<Mod("array"), Mod("nullable")>> =>
                  heap[ptr].Type = "array" /\ heap[ptr].Value = StrV("nil")
            /\ heap[ptr].Modifiers = <<Mod("nullable"), Mod("array")>> =>
                  heap[ptr].Type = "array" /\ heap[ptr].Value = EmptyArr

\* one run in which both modifier lists were applied, each to a parameter with no
\* prior value
C5_Witness ==
    \E p, q \in 1..Len(heap) :
        /\ Modified(p) /\ PriorValue(heap[p].Name) = NilV
        /\ heap[p].Modifiers = <<Mod("array"), Mod("nullable")>>
        /\ Modified(q) /\ PriorValue(heap[q].Name) = NilV
        /\ heap[q].Modifiers = <<Mod("nullable"), Mod("array")>>

-----------------------------------------------------------------------------
(* C10 *)

\* the depth of a heading line, 0 for any other line
HeadingDepth(l) == IF l # <<>> /\ l[1].k = "heading" THEN l[1].d ELSE 0

\* the headings matching the Parameters title: two hashes or more, then the title
ParamsHeadings ==
    { i \in 1..Len(readme0) :
        HeadingDepth(readme0[i]) >= 2 /\ readme0[i][1].t = ParamsSectionTitle }

Least(S) == CHOOSE i \in S : \A j \in S : i <= j

\* the first line after the first matching heading h that is a heading of h's
\* depth; one past the last line if there is none
RegionEnd(h) ==
    LET E == { j \in (h + 1)..Len(readme0) :
                 HeadingDepth(readme0[j]) = HeadingDepth(readme0[h]) }
    IN  IF E = {} THEN Len(readme0) + 1 ELSE Least(E)

-----------------------------------------------------------------------------
(* C11: the schema tree *)

\* a parameter schemaGenerator.add does not return early on
Eligible(p) == ~Extra(p) /\ p.Schema /\ ~HasModifier(p, "object")

\* the list GenerateSchema handed to renderOpenAPISchema
SchemaList == Deref(heap, meta.Parameters)

SchemaAttempted == opts.schema /\ pc \in {"done", "panic"}

\* node is the leaf some eligible parameter of that name makes
LeafOfEligible(node, name) ==
    \E i \in 1..Len(SchemaList) :
        /\ SchemaList[i].Name = name
        /\ Eligible(SchemaList[i])
        /\ node = LeafNode(SchemaList[i])

\* object nodes with properties down to the last segment, and a leaf there
RECURSIVE LeafAt(_, _, _, _)
LeafAt(props, parts, i, name) ==
    /\ parts[i] \in DOMAIN props
    /\ IF i = Len(parts)
       THEN LeafOfEligible(props[parts[i]], name)
       ELSE /\ props[parts[i]].type = "object"
            /\ "properties" \in props[parts[i]].keys
            /\ LeafAt(props[parts[i]].props, parts, i + 1, name)

\* every node without properties below props is the leaf of an eligible parameter
RECURSIVE OnlyEligibleLeaves(_, _)
OnlyEligibleLeaves(props, prefix) ==
    \A k \in DOMAIN props :
        LET path == IF prefix = <<>> THEN k ELSE prefix \o <<".">> \o k
        IN  IF "properties" \in props[k].keys
            THEN OnlyEligibleLeaves(props[k].props, path)
            ELSE LeafOfEligible(props[k], path)

\* C11: once the schema step has run over the parameter list, the schema is
\* written and holds, for every eligible parameter of the list (not Extra,
\* schema flag on, no object modifier), a leaf at the position its dot-path
\* segments give, below object nodes with properties, and no other leaf; in
\* every order of the list, also when one eligible path is a dot-prefix of
\* another's.
C11_SchemaHoldsEveryEligibleLeaf ==
    SchemaAttempted =>
        /\ schemaFile.written
        /\ \A i \in 1..Len(SchemaList) :
              Eligible(SchemaList[i]) =>
                  LeafAt(schemaFile.props, SplitDot(SchemaList[i].Name, 1, <<>>), 1,
                         SchemaList[i].Name)
        /\ OnlyEligibleLeaves(schemaFile.props, <<>>)

\* the part of C11 that is about a list whose add calls all return: the leaf
\* of a.b is there after a.b and then its dot-prefix a were added
C11_LeafKeptWhenPrefixAddedLater ==
    (SchemaAttempted /\ schemaFile.written) =>
        \A i \in 1..Len(SchemaList) :
            Eligible(SchemaList[i]) =>
                LeafAt(schemaFile.props, SplitDot(SchemaList[i].Name, 1, <<>>), 1,
                       SchemaList[i].Name)

\* the paths of the eligible parameters of the list
EligibleNames == { SchemaList[i].Name : i \in { j \in 1..Len(SchemaList) : Eligible(SchemaList[j]) } }

\* C11 where no eligible path is a dot-prefix of another: the schema is written
\* with exactly the eligible leaves
C11_HoldsWithoutDotPrefix ==
    (SchemaAttempted /\ ~\E a, b \in EligibleNames : HasPrefix(b, a \o <<".">>)) =>
        /\ schemaFile.written
        /\ \A i \in 1..Len(SchemaList) :
              Eligible(SchemaList[i]) =>
                  LeafAt(schemaFile.props, SplitDot(SchemaList[i].Name, 1, <<>>), 1,
                         SchemaList[i].Name)
        /\ OnlyEligibleLeaves(schemaFile.props, <<>>)

\* a schema was written with the leaf of a.b below the object node a
C11_NestedLeafWritten ==
    /\ SchemaAttempted
    /\ schemaFile.written
    /\ nA_B \in EligibleNames
    /\ LeafAt(schemaFile.props, SplitDot(nA_B, 1, <<>>), 1, nA_B)

-----------------------------------------------------------------------------
(* C12, C13: the DirectiveParser, stated on the lines of the file *)

\* description mode when line i is read: a @descriptionStart line before it
\* with no @descriptionEnd and no @section line in between
DescMode(i) ==
    \E j \in 1..(i - 1) :
        /\ lines[j].tag = "descStart"
        /\ \A k \in (j + 1)..(i - 1) : lines[k].tag \notin {"descEnd", "section"}

\* line i declares a parameter
Declares(i) == lines[i].tag \in {"param", "skip", "extra"} /\ ~DescMode(i)

\* the number of the Section open when line i is read, 0 if none
OpenSection(i) == Cardinality({ j \in 1..(i - 1) : lines[j].tag = "section" })

\* the elements of a set of numbers in increasing order
SortedSeq(S) ==
    CHOOSE q \in [1..Cardinality(S) -> S] :
        \A a, b \in 1..Cardinality(S) : a < b => q[a] < q[b]

DeclLines == SortedSeq({ i \in 1..Len(lines) : Declares(i) })

\* parseMetadataComments has returned and nothing has touched its result yet
Parsed == pc = "check"

\* the positions of the global list whose declaring line had Section s open
RECURSIVE InSection(_, _)
InSection(s, k) ==
    IF k > Len(DeclLines) THEN <<>>
    ELSE (IF OpenSection(DeclLines[k]) = s THEN <<meta.Parameters[k]>> ELSE <<>>)
         \o InSection(s, k + 1)

\* the Sections whose list holds the pointer ptr
SectionsOf(ptr) ==
    { s \in 1..Len(meta.Sections) :
        \E n \in 1..Len(meta.Sections[s].Parameters) : meta.Sections[s].Parameters[n] = ptr }

\* C12: the global list holds one parameter per declaring line (@param, @skip,
\* @extra), in file order; a parameter is also in the list of the most
\* recently opened Section exactly when one is open at its line, so each is in
\* zero or one Section list, each Section holds the declarations from its
\* @section line up to the next one, in file order, and every Section
\* parameter is in the global list.
C12_DeclaredInGlobalAndOpenSection ==
    Parsed =>
        /\ Len(meta.Parameters) = Len(DeclLines)
        /\ \A k, n \in 1..Len(meta.Parameters) :
              k # n => meta.Parameters[k] # meta.Parameters[n]
        /\ \A k \in 1..Len(DeclLines) :
              /\ heap[meta.Parameters[k]].Name = lines[DeclLines[k]].name
              /\ SectionsOf(meta.Parameters[k]) =
                    IF OpenSection(DeclLines[k]) = 0 THEN {}
                    ELSE {OpenSection(DeclLines[k])}
        /\ Len(meta.Sections) = OpenSection(Len(lines) + 1)
        /\ \A s \in 1..Len(meta.Sections) :
              /\ meta.Sections[s].Parameters = InSection(s, 1)
              /\ \A n \in 1..Len(meta.Sections[s].Parameters) :
                    \E k \in 1..Len(meta.Parameters) :
                        meta.Parameters[k] = meta.Sections[s].Parameters[n]

\* a declaration before any Section and one in the second Section opened
C12_Witness ==
    /\ Parsed
    /\ Len(meta.Sections) = 2
    /\ \E k \in 1..Len(DeclLines) : OpenSection(DeclLines[k]) = 0
    /\ \E k \in 1..Len(DeclLines) :
          /\ OpenSection(DeclLines[k]) = 2
          /\ SectionsOf(meta.Parameters[k]) = {2}

\* the parser's locals after it has read the first i lines
ParseUpTo(i) == parseLines(ParserInit, SubSeq(lines, 1, i), 1)

\* the one matcher the priority order gives line i
Matcher(i) ==
    CASE lines[i].tag = "section" -> "section"
      [] lines[i].tag = "descStart" -> "descStart"
      [] lines[i].tag = "descEnd" -> IF DescMode(i) THEN "descEnd" ELSE "none"
      [] lines[i].tag \in {"comment", "param", "skip", "extra"} ->
            IF DescMode(i) THEN "content"
            ELSE IF lines[i].tag = "comment" THEN "none" ELSE lines[i].tag
      [] OTHER -> "none"

SectionDescs(st) == [s \in 1..Len(st.Sections) |-> st.Sections[s].DescriptionLines]

\* from b to a, txt was appended to the description of Section s and to no other
AppendedTo(b, a, s, txt) ==
    /\ Len(a.Sections) = Len(b.Sections)
    /\ s \in 1..Len(b.Sections)
    /\ SectionDescs(a) = [SectionDescs(b) EXCEPT ![s] = Append(@, txt)]

\* what line i did, for every matcher but the capture of a content line
MatcherEffect(i) ==
    LET b == ParseUpTo(i - 1)
        a == ParseUpTo(i)
        m == Matcher(i)
    IN  /\ a.descriptionMode = DescMode(i + 1)
        /\ m = "section" =>
              /\ Len(a.Sections) = Len(b.Sections) + 1
              /\ a.Sections[Len(a.Sections)] = NewSection(lines[i].text)
              /\ SubSeq(a.Sections, 1, Len(b.Sections)) = b.Sections
              /\ a.Parameters = b.Parameters
        /\ m = "descStart" =>
              /\ a.Parameters = b.Parameters
              /\ IF OpenSection(i) # 0 /\ lines[i].text # ""
                 THEN AppendedTo(b, a, OpenSection(i), lines[i].text)
                 ELSE a.Sections = b.Sections
        /\ m = "descEnd" => (a.Parameters = b.Parameters /\ a.Sections = b.Sections)
        /\ m = "content" => (a.Parameters = b.Parameters /\ a.heap = b.heap)
        /\ m \in {"param", "skip", "extra"} =>
              /\ Len(a.Parameters) = Len(b.Parameters) + 1
              /\ a.heap[a.Parameters[Len(a.Parameters)]].Name = lines[i].name
              /\ SectionDescs(a) = SectionDescs(b)
        /\ m = "none" => a = b

\* C13 as claimed: one matcher per line in the priority order, description
\* mode on exactly from a @descriptionStart line to the next @descriptionEnd or
\* @section line, and every comment-prefixed line read in description mode
\* that is none of those tags, a @param, @skip or @extra line included,
\* declares no parameter and is captured as a description line.
C13_EveryContentLineCaptured ==
    Parsed =>
        \A i \in 1..Len(lines) :
            /\ MatcherEffect(i)
            /\ Matcher(i) = "content" =>
                  \E s \in 1..Len(ParseUpTo(i).Sections) :
                      AppendedTo(ParseUpTo(i - 1), ParseUpTo(i), s, Content(lines[i]))

\* C13: one matcher per line in the priority order, description mode on
\* exactly from a @descriptionStart line to the next @descriptionEnd or
\* @section line, and every comment-prefixed line read in description mode
\* that is none of those tags, a @param, @skip or @extra line included,
\* declares no parameter; it is appended to the description of the most
\* recently opened Section, and is dropped when no Section is open.
C13_ContentLineCapturedInOpenSection ==
    Parsed =>
        /\ meta.Sections = ParseUpTo(Len(lines)).Sections
        /\ \A i \in 1..Len(lines) :
              /\ MatcherEffect(i)
              /\ Matcher(i) = "content" =>
                    IF OpenSection(i) = 0
                    THEN ParseUpTo(i).Sections = ParseUpTo(i - 1).Sections
                    ELSE AppendedTo(ParseUpTo(i - 1), ParseUpTo(i), OpenSection(i),
                                    Content(lines[i]))

\* a @param line read in description mode with a Section open: it is in that
\* Section's description and declares nothing
C13_Witness ==
    /\ Parsed
    /\ \E i \in 1..Len(lines) :
          /\ lines[i].tag = "param"
          /\ DescMode(i)
          /\ OpenSection(i) # 0
          /\ \E n \in 1..Len(meta.Sections[OpenSection(i)].DescriptionLines) :
                meta.Sections[OpenSection(i)].DescriptionLines[n] = Content(lines[i])
          /\ Len(meta.Parameters) = 0

-----------------------------------------------------------------------------
(* C14: roles *)

\* every Parameter object the program holds: the flattened real ones, the
\* declared ones, the ones the Merger made
AllParameters == ToSet(valuesObj) \cup ToSet(heap)

Normal(p) == p.Validate /\ p.Readme

\* C14: in every state of the pipeline every Parameter is Normal (validate and
\* renderInReadme), Skip (neither) or Extra (renderInReadme only); validate
\* without renderInReadme never occurs.
C14_RoleIsNormalSkipOrExtra ==
    \A p \in AllParameters :
        /\ Normal(p) \/ Skip(p) \/ Extra(p)
        /\ ~(p.Validate /\ ~p.Readme)

\* the run is over, the Merger made a Skip parameter of its own, and all
\* three roles are held
C14_Witness ==
    /\ pc = "done"
    /\ Len(heap) > Len(lines)
    /\ Skip(heap[Len(heap)])
    /\ \E p \in AllParameters : Normal(p)
    /\ \E p \in AllParameters : Extra(p)
    /\ \E i \in 1..Len(heap) : Len(heap[i].Modifiers) > 0

-----------------------------------------------------------------------------
(* C15: applyModifiers twice *)

\* runReadmeGenerator with a schema path only, on a tree and the lines of its
\* file, when checkKeys finds no mismatch: what renderOpenAPISchema gets to
SchemaOnlyRun(t, ls) ==
    LET st == parseMetadataComments(ls)
        c == combineMetadataAndValues(createValuesObject(t), st.heap, st.Parameters)
        b == buildParamsToRender(c.heap, st.Parameters)
    IN  renderOpenAPISchema(Deref(b.heap, b.out))

\* the run made both outputs
BothDone == opts = Both /\ pc \in {"done", "panic"} /\ writes # <<>> /\ writes[1] = "readme"

\* C15: applying the modifiers of any parameter a second time changes neither
\* its type nor its value, before or after they were applied; so a run that
\* wrote the README and then the schema, applying the modifiers of the
\* parameters of the Sections twice, writes the schema a run for the schema
\* alone writes.
C15_ApplyModifiersIdempotent ==
    /\ \A ptr \in 1..Len(heap) :
          applyModifiers(applyModifiers(heap[ptr])) = applyModifiers(heap[ptr])
    /\ BothDone =>
          LET r == SchemaOnlyRun(tree, lines)
          IN  /\ (pc = "panic") = r.panic
              /\ pc = "done" => (schemaFile.written /\ schemaFile.props = r.props)

\* both outputs were written, and the modifiers were applied twice to a
\* parameter of a Section whose value the first application changed from null
\* to the sentinel
C15_Witness ==
    /\ BothDone
    /\ pc = "done"
    /\ schemaFile.written
    /\ \E ptr \in 1..Len(heap) :
          /\ \E s \in 1..Len(meta.Sections) : ptr \in ToSet(meta.Sections[s].Parameters)
          /\ ptr \in ToSet(meta.Parameters)
          /\ HasModifier(heap[ptr], "nullable")
          /\ PriorValue(heap[ptr].Name) = NilV
          /\ heap[ptr].Value = StrV("nil")
          /\ nA \in DOMAIN schemaFile.props
          /\ schemaFile.props[nA].default = StrV("nil")

=============================================================================
